---- MODULE Spec2Model ----
(***************************************************************************)
(* Model of src/app.py (string-search): the loaded table, its row-numbered *)
(* copy, and the four dataframe operations get_matches, get_duplicated,    *)
(* get_group and get_others that main() applies to it.                     *)
(*                                                                         *)
(* A table (pandas DataFrame) is a sequence of rows; a row is a function   *)
(* from column names to cells.  A cell is a record [k, v]: k is the kind   *)
(* ("str", "num" or "nan") and v the payload, a sequence of character      *)
(* codes for a string, <<n>> for the integer n, <<>> for NaN.              *)
(***************************************************************************)
EXTENDS Integers, Sequences, FiniteSets

VARIABLES
    df,                  \* main: df = load_data(file)
    dfn,                 \* main: dfn = df.copy() with row_num inserted
    section,             \* which part of main() produced the current views
    selected_column,     \* widget: column of the search / group section
    selected_option,     \* widget: match mode
    user_input,          \* widget: query text
    selected_column_duplicated, \* widget: key columns of the duplicates section
    df_selected,         \* main: result of the search section
    duplicated_df,       \* main: result of get_duplicated
    other_duplicated_df, \* main: get_others(dfn, duplicated_df[dfn.columns])
    group_df,            \* main: result of get_group
    other_group_df,      \* main: get_others(dfn, group_df[dfn.columns])
    raised,              \* TRUE when the section ended in an exception
    similarity,          \* string_grouper's score (tenths) of each value against the query
    deduplicated,        \* string_grouper's cluster label of each value
    df1,                 \* get_others called on its own: first argument
    df2,                 \* get_others called on its own: second argument
    others               \* get_others called on its own: result

vars == <<df, dfn, section, selected_column, selected_option, user_input,
          selected_column_duplicated, df_selected, duplicated_df,
          other_duplicated_df, group_df, other_group_df, raised, similarity,
          deduplicated, df1, df2, others>>

----------------------------------------------------------------------------
(* Bounds *)

MaxRows == 3

MaxDupRows == 4

----------------------------------------------------------------------------
(* Cells, strings, and the conversions pandas applies to them *)

Str(s) == [k |-> "str", v |-> s]

Num(n) == [k |-> "num", v |-> <<n>>]

NaN == [k |-> "nan", v |-> <<>>]

\* str.lower() on one character code (ASCII 'A'..'Z' -> 'a'..'z')
lower_char(c) == IF c \in 65..90 THEN c + 32 ELSE c

\* str.lower()
lower(s) == [i \in 1..Len(s) |-> lower_char(s[i])]

\* str(n) for a non-negative integer: its decimal digits
RECURSIVE digits(_)
digits(n) == IF n < 10 THEN <<48 + n>> ELSE digits(n \div 10) \o <<48 + (n % 10)>>

\* .astype(str) on one cell: a string is itself, an integer its digits, NaN is "nan"
astype_str(c) ==
    CASE c.k = "str" -> c.v
      [] c.k = "num" -> digits(c.v[1])
      [] c.k = "nan" -> <<110, 97, 110>>

\* str.startswith(pat): literal prefix test
startswith(s, pat) ==
    /\ Len(pat) <= Len(s)
    /\ \A j \in 1..Len(pat) : s[j] = pat[j]

\* re.search(pat, s) for a pattern made of literal characters and '.',
\* which matches any character
re_search(pat, s) ==
    \E i \in 0..(Len(s) - Len(pat)) :
        \A j \in 1..Len(pat) : pat[j] = 46 \/ pat[j] = s[i + j]

\* str.contains(pat): regex=True is the default, so pat is a regular expression
str_contains(s, pat) == re_search(pat, s)

\* Python's < on two strings
str_less(s, t) ==
    \E i \in 1..(Len(s) + 1) :
        /\ i <= Len(t)
        /\ \A j \in 1..(i - 1) : s[j] = t[j]
        /\ (i = Len(s) + 1 \/ s[i] < t[i])

\* Order of two cells of one column under sort_values (na_position='last')
cell_less(a, b) ==
    CASE a.k = "nan" -> FALSE
      [] b.k = "nan" -> TRUE
      [] a.k = "num" /\ b.k = "num" -> a.v[1] < b.v[1]
      [] OTHER -> str_less(a.v, b.v)

----------------------------------------------------------------------------
(* Tables *)

Empty == <<>>

\* boolean indexing df[cond]: the rows whose position satisfies cond, in order
RECURSIVE select_rows(_, _)
select_rows(t, keep) ==
    IF t = <<>> THEN <<>>
    ELSE LET n == Len(t)
             front == select_rows(SubSeq(t, 1, n - 1), keep)
         IN IF n \in keep THEN Append(front, t[n]) ELSE front

\* df.columns, as a set of names
columns(t) == IF t = <<>> THEN {} ELSE DOMAIN t[1]

\* df[columns]: projection on a set of columns
project(t, names) == [i \in 1..Len(t) |-> [c \in names |-> t[i][c]]]

\* dfn.insert(loc=0, column=name, value=values)
insert_column(t, name, values) ==
    [i \in 1..Len(t) |->
        [c \in (DOMAIN t[i]) \cup {name} |-> IF c = name THEN values[i] ELSE t[i][c]]]

\* dfn = df.copy(); dfn.insert(loc=0, column='row_num', value=np.arange(len(dfn))+1)
with_row_num(t) == insert_column(t, "row_num", [i \in 1..Len(t) |-> Num(i)])

\* lexicographic order of two rows on the key columns `by` (a sequence of names)
key_less(r, s, by) ==
    \E i \in 1..Len(by) :
        /\ \A j \in 1..(i - 1) : r[by[j]] = s[by[j]]
        /\ cell_less(r[by[i]], s[by[i]])

\* sort_values(by=[...several columns...], ignore_index=True): a lexsort, stable
sort_values(t, by) ==
    LET before(j, i) == key_less(t[j], t[i], by) \/ (~key_less(t[i], t[j], by) /\ j < i)
        pos(i) == 1 + Cardinality({j \in 1..Len(t) : before(j, i)})
    IN [p \in 1..Len(t) |-> t[CHOOSE i \in 1..Len(t) : pos(i) = p]]

\* sort_values(by=col, ascending=..., ignore_index=True) with one column:
\* numpy's quicksort, which is not stable.  The rows come out ordered by col,
\* rows with equal values in any order, and the NaN rows last in their
\* original order (nargsort appends them).
sort_values_quicksort(t, col, ascending) ==
    LET n == Len(t)
        perms == {f \in [1..n -> 1..n] : \A i, j \in 1..n : i # j => f[i] # f[j]}
        nan(i) == t[i][col].k = "nan"
        ok(f) == \A p, q \in 1..n : p < q =>
                    /\ nan(f[p]) => nan(f[q])
                    /\ nan(f[p]) /\ nan(f[q]) => f[p] < f[q]
                    /\ ~nan(f[p]) /\ ~nan(f[q]) =>
                          IF ascending THEN ~cell_less(t[f[q]][col], t[f[p]][col])
                                       ELSE ~cell_less(t[f[p]][col], t[f[q]][col])
    IN {[p \in 1..n |-> t[f[p]]] : f \in {g \in perms : ok(g)}}

\* Series.drop_duplicates(): the distinct values, each at its first position
RECURSIVE drop_duplicates_series(_)
drop_duplicates_series(s) ==
    IF s = <<>> THEN <<>>
    ELSE LET n == Len(s)
             front == drop_duplicates_series(SubSeq(s, 1, n - 1))
         IN IF \E i \in 1..(n - 1) : s[i] = s[n] THEN front ELSE Append(front, s[n])

\* df[col].astype(str)
astype_str_column(t, col) == [i \in 1..Len(t) |-> astype_str(t[i][col])]

\* the dtype pandas gives a column is numeric when it holds no string
is_numeric_dtype(t, col) == \A i \in 1..Len(t) : t[i][col].k # "str"

----------------------------------------------------------------------------
(* get_matches *)

\* min_similarity=0.4, in tenths
min_similarity == 4

\* match_strings keeping only the scores above min_similarity
match_strings_gt(master, input, sim) ==
    LET hits == {i \in 1..Len(master) : sim[master[i]] > min_similarity}
        frame == [i \in 1..Len(master) |->
                    [c \in {"left_side", "similarity", "right_side"} |->
                        CASE c = "left_side" -> Str(master[i])
                          [] c = "similarity" -> Num(sim[master[i]])
                          [] c = "right_side" -> Str(input)]]
    IN select_rows(frame, hits)

\* match_strings(master, pd.Series(input), min_similarity): one row per string
\* of master whose score against the query reaches min_similarity; sim is the
\* library's score of each master string, in tenths
match_strings(master, input, sim) ==
    LET hits == {i \in 1..Len(master) : sim[master[i]] >= min_similarity}
        frame == [i \in 1..Len(master) |->
                    [c \in {"left_side", "similarity", "right_side"} |->
                        CASE c = "left_side" -> Str(master[i])
                          [] c = "similarity" -> Num(sim[master[i]])
                          [] c = "right_side" -> Str(input)]]
    IN select_rows(frame, hits)

\* pd.merge(left, right, left_on='left_side', right_on=col): inner join on
\* equal key cells, in the order of the left keys and, for one left key, of
\* the right rows
RECURSIVE merge(_, _, _)
merge(left, right, col) ==
    IF left = <<>> THEN <<>>
    ELSE LET l == Head(left)
             hits == {i \in 1..Len(right) : right[i][col] = l["left_side"]}
             joined == [i \in 1..Len(right) |->
                          [c \in (DOMAIN l) \cup (DOMAIN right[i]) |->
                              IF c \in DOMAIN right[i] THEN right[i][c] ELSE l[c]]]
         IN select_rows(joined, hits) \o merge(Tail(left), right, col)

\* pd.merge refuses an object key against a numeric key (ValueError) unless
\* one side is empty
merge_raises(left, right, col) ==
    /\ left # <<>>
    /\ right # <<>>
    /\ is_numeric_dtype(right, col)

\* The 'Starts with' / 'Contains' condition of one row
matches_cond(r, col, input, option) ==
    IF option = "Starts with"
    THEN startswith(lower(astype_str(r[col])), lower(input))
    ELSE str_contains(lower(astype_str(r[col])), lower(input))

\* get_matches(df, col, input, option): the set of outcomes [arg, ret, raised],
\* arg the caller's frame (the parameter df, here t) as the call leaves it,
\* ret the returned frame
get_matches(t, col, input, option, sim) ==
    IF option \in {"Starts with", "Contains"}
    THEN LET cond == {i \in 1..Len(t) : matches_cond(t[i], col, input, option)}
             dfn_copy == select_rows(t, cond)
         IN {[arg |-> t, ret |-> s, raised |-> FALSE] :
                s \in sort_values_quicksort(dfn_copy, col, TRUE)}
    ELSE LET master == drop_duplicates_series(astype_str_column(t, col))
             found == match_strings(master, input, sim)
         IN {IF merge_raises(s, t, col)
             THEN [arg |-> t, ret |-> Empty, raised |-> TRUE]
             ELSE [arg |-> t, ret |-> project(merge(s, t, col), columns(t)),
                   raised |-> FALSE] :
                s \in sort_values_quicksort(found, "similarity", FALSE)}

----------------------------------------------------------------------------
(* get_duplicated *)

\* the set of names in a list of columns
col_set(cols) == {cols[i] : i \in 1..Len(cols)}

\* df.duplicated(subset=cols, keep='first'): every occurrence of a key after its first
duplicated_keep_first(t, cols) ==
    {i \in 1..Len(t) : \E j \in 1..(i - 1) : \A c \in col_set(cols) : t[j][c] = t[i][c]}

\* df.duplicated(subset=cols, keep=False): every row whose key occurs in another row
duplicated(t, cols) ==
    {i \in 1..Len(t) : \E j \in 1..Len(t) :
        j # i /\ \A c \in col_set(cols) : t[j][c] = t[i][c]}

\* dfn[cols].apply(tuple, axis=1)
apply_tuple(t, cols) == [i \in 1..Len(t) |-> [k \in 1..Len(cols) |-> t[i][cols[k]]]]

\* Python's < on two tuples of equal length
tuple_less(a, b) ==
    \E i \in 1..Len(a) :
        /\ \A j \in 1..(i - 1) : a[j] = b[j]
        /\ cell_less(a[i], b[i])

\* Series.rank(method='min'): one plus the number of entries below
rank_min(values) ==
    [i \in 1..Len(values) |->
        1 + Cardinality({j \in 1..Len(values) : tuple_less(values[j], values[i])})]

\* Series.rank(method='dense').astype(int): one plus the number of distinct values below
rank_dense(values) ==
    [i \in 1..Len(values) |->
        1 + Cardinality({values[j] : j \in {k \in 1..Len(values) :
                                              tuple_less(values[k], values[i])}})]

\* get_duplicated(df, cols): [arg, ret]
get_duplicated(t, cols) ==
    LET dups == sort_values(select_rows(t, duplicated(t, cols)), cols \o <<"row_num">>)
        sets == rank_dense(apply_tuple(dups, cols))
    IN [arg |-> t,
        ret |-> insert_column(dups, "set", [i \in 1..Len(dups) |-> Num(sets[i])])]

----------------------------------------------------------------------------
(* get_group *)

\* groupby('deduplicated').filter(lambda x: len(x) >= 1)
groupby_filter_nonempty(t) == t

\* groupby('deduplicated').filter(lambda x: len(x) > 1): rows of groups of 2 or more
groupby_filter(t) ==
    select_rows(t, {i \in 1..Len(t) : \E j \in 1..Len(t) :
                      j # i /\ t[j]["deduplicated"] = t[i]["deduplicated"]})

\* the body of get_group on a frame that already carries 'deduplicated'
group_sets(t) ==
    LET kept == sort_values(groupby_filter(t), <<"deduplicated", "row_num">>)
        sets == rank_dense([i \in 1..Len(kept) |-> <<kept[i]["deduplicated"]>>])
        tagged == insert_column(kept, "set", [i \in 1..Len(kept) |-> Num(sets[i])])
    IN project(tagged, columns(tagged) \ {"deduplicated"})

\* dfn['deduplicated'] = group_similar_strings(dfn[col].astype(str)); labels is
\* the library's cluster label (a representative string) of each value
with_deduplicated(t, col, labels) ==
    insert_column(t, "deduplicated",
                  [i \in 1..Len(t) |-> Str(labels[astype_str(t[i][col])])])

\* get_group without the df.copy(): the caller's frame gets the new column
get_group_no_copy(t, col, labels) ==
    [arg |-> with_deduplicated(t, col, labels),
     ret |-> group_sets(with_deduplicated(t, col, labels))]

\* get_group(df, col): [arg, ret]
get_group(t, col, labels) ==
    LET dfn_copy == t
    IN [arg |-> t, ret |-> group_sets(with_deduplicated(dfn_copy, col, labels))]

----------------------------------------------------------------------------
(* get_others *)

\* drop_duplicates(keep='first')
drop_duplicates_keep_first(t) ==
    select_rows(t, {i \in 1..Len(t) : \A j \in 1..(i - 1) : t[j] # t[i]})

\* drop_duplicates(keep=False): the rows equal to no other row
drop_duplicates(t) ==
    select_rows(t, {i \in 1..Len(t) : \A j \in 1..Len(t) : j # i => t[j] # t[i]})

\* pd.concat([df1, df2, df2]).drop_duplicates(keep='first')
get_others_keep_first(a, b) == drop_duplicates_keep_first(a \o b \o b)

\* get_others(df1, df2)
get_others(a, b) == drop_duplicates(a \o b \o b)

----------------------------------------------------------------------------
(* Inputs *)

Columns == {"name", "id"}

\* cells of the text column 'name' in the loaded file: "A", "a" or an empty field
NameCells == {Str(<<65>>), Str(<<97>>), NaN}

\* cells of the integer column 'id'
IdCells == {Num(1), Num(2)}

\* the loaded rows whose cells come from the given sets
Rows(names, ids) == {[c \in Columns |-> IF c = "name" THEN n ELSE i] : n \in names, i \in ids}

\* the tables of lo to hi rows
Tables(rows, lo, hi) == UNION {[1..k -> rows] : k \in lo..hi}

\* texts typed in the search box: "A", ".", "n", "nan", "1"
Queries == {<<65>>, <<46>>, <<110>>, <<110, 97, 110>>, <<49>>}

Options == {"Starts with", "Contains", "Most similar"}

\* the multiselect's choices: lists of distinct columns, possibly none
KeyLists == {<<>>, <<"name">>, <<"id">>, <<"name", "id">>, <<"id", "name">>}

\* scores string_grouper may give a value against the query, in tenths: below
\* the threshold, on it, and a perfect match.  The metric itself is the
\* library's; any assignment of these scores to the values is allowed.
Scores == {3, 4, 10}

NoOracle == [x \in {} |-> 0]

\* the distinct strings of a column
strings_of(t, col) == {astype_str(t[i][col]) : i \in 1..Len(t)}

----------------------------------------------------------------------------
(* main(): the state after loading, and one action per section of the page *)

Loaded(tables) ==
    /\ df \in tables
    /\ dfn = with_row_num(df)
    /\ section = "load"
    /\ selected_column = "name"
    /\ selected_option = "Starts with"
    /\ user_input = <<>>
    /\ selected_column_duplicated = <<>>
    /\ df_selected = df
    /\ duplicated_df = Empty
    /\ other_duplicated_df = Empty
    /\ group_df = Empty
    /\ other_group_df = Empty
    /\ raised = FALSE
    /\ similarity = NoOracle
    /\ deduplicated = NoOracle
    /\ df1 = Empty
    /\ df2 = Empty
    /\ others = Empty

\* what one run of main() leaves on the page: the widgets and views of the
\* section that ran, the other sections' views empty
Page(sec, col, option, input, cols, selected, dups, odups, groups, ogroups, exc, sim, labels) ==
    /\ section' = sec
    /\ selected_column' = col
    /\ selected_option' = option
    /\ user_input' = input
    /\ selected_column_duplicated' = cols
    /\ df_selected' = selected
    /\ duplicated_df' = dups
    /\ other_duplicated_df' = odups
    /\ group_df' = groups
    /\ other_group_df' = ogroups
    /\ raised' = exc
    /\ similarity' = sim
    /\ deduplicated' = labels
    /\ UNCHANGED <<df, df1, df2, others>>

\* Search section with a query: df_selected = get_matches(dfn, ...)
Search(col, input, option) ==
    /\ input # <<>>
    /\ \E sim \in [strings_of(dfn, col) -> Scores] :
         \E out \in get_matches(dfn, col, input, option, sim) :
            /\ dfn' = out.arg
            /\ Page("search", col, option, input, <<>>, out.ret, Empty, Empty, Empty,
                    Empty, out.raised,
                    IF option = "Most similar" THEN sim ELSE NoOracle, NoOracle)

\* Search section with an empty query: df_selected = df.copy()
SearchEmpty(col, option) ==
    /\ dfn' = dfn
    /\ Page("search", col, option, <<>>, <<>>, df, Empty, Empty, Empty, Empty, FALSE,
            NoOracle, NoOracle)

\* Duplicates section: get_duplicated and, when the checkbox is ticked,
\* get_others on its result.  Key columns holding NaN are left out.
Duplicates(cols, other_duplicated) ==
    /\ \A i \in 1..Len(dfn) : \A c \in col_set(cols) : dfn[i][c].k # "nan"
    /\ IF cols # <<>>
       THEN LET out == get_duplicated(dfn, cols)
            IN /\ dfn' = out.arg
               /\ Page(IF other_duplicated THEN "duplicates_others" ELSE "duplicates",
                       "name", "Starts with", <<>>, cols, df, out.ret,
                       IF other_duplicated
                       THEN get_others(out.arg, project(out.ret, columns(out.arg)))
                       ELSE Empty,
                       Empty, Empty, FALSE, NoOracle, NoOracle)
       ELSE /\ dfn' = dfn
            /\ Page("duplicates", "name", "Starts with", <<>>, cols, df, Empty, Empty,
                    Empty, Empty, FALSE, NoOracle, NoOracle)

\* Group matches section: get_group and, when the checkbox is ticked,
\* get_others on its result.  The clustering is the library's: any assignment
\* of a representative string of the column to each distinct value is allowed.
Group(col, other_group) ==
    \E labels \in [strings_of(dfn, col) -> strings_of(dfn, col)] :
       LET out == get_group(dfn, col, labels)
       IN /\ dfn' = out.arg
          /\ Page(IF other_group THEN "group_others" ELSE "group",
                  col, "Starts with", <<>>, <<>>, df, Empty, Empty, out.ret,
                  IF other_group
                  THEN get_others(out.arg, project(out.ret, columns(out.arg)))
                  ELSE Empty,
                  FALSE, NoOracle, labels)

\* texts typed in the search box in the sequences of interactions: "A", "."
PageQueries == {<<65>>, <<46>>}

\* a file of 1 to MaxRows rows over two distinct rows
Init == Loaded(Tables(Rows({Str(<<97>>), NaN}, {Num(1)}), 1, MaxRows))

Next ==
    \/ \E col \in Columns, input \in PageQueries, option \in Options :
          Search(col, input, option)
    \/ \E col \in Columns, option \in Options : SearchEmpty(col, option)
    \/ \E cols \in KeyLists, other \in BOOLEAN : Duplicates(cols, other)
    \/ \E col \in Columns, other \in BOOLEAN : Group(col, other)

\* main() re-run after any interaction, again and again
Spec == Init /\ [][Next]_vars

----------------------------------------------------------------------------
(* Each operation applied once to a freshly loaded table *)

CallSearch(col, input, option) == section = "load" /\ Search(col, input, option)

CallDuplicates(cols, other_duplicated) ==
    section = "load" /\ Duplicates(cols, other_duplicated)

CallGroup(col, other_group) == section = "load" /\ Group(col, other_group)

\* a file of 1 to MaxRows rows, text column with upper case, lower case and NaN
InitSearch == Loaded(Tables(Rows(NameCells, IdCells), 1, MaxRows))

NextSearch ==
    \/ \E col \in Columns, input \in Queries, option \in Options :
          CallSearch(col, input, option)
    \/ \E col \in Columns, other \in BOOLEAN : CallGroup(col, other)

SpecSearch == InitSearch /\ [][NextSearch]_vars

\* a file of 0 to MaxDupRows rows without empty fields
InitDup == Loaded(Tables(Rows({Str(<<65>>), Str(<<97>>)}, IdCells), 0, MaxDupRows))

NextDup == \E cols \in KeyLists, other \in BOOLEAN : CallDuplicates(cols, other)

SpecDup == InitDup /\ [][NextDup]_vars

\* a file of 1 to MaxDupRows rows with names "A", "a", "b"
InitGroup ==
    Loaded(Tables(Rows({Str(<<65>>), Str(<<97>>), Str(<<98>>)}, {Num(1)}), 1, MaxDupRows))

NextGroup == \E col \in Columns, other \in BOOLEAN : CallGroup(col, other)

SpecGroup == InitGroup /\ [][NextGroup]_vars

----------------------------------------------------------------------------
(* get_others applied once to two tables over the same columns *)

\* df1 and df2 of 0 to MaxRows rows each, over two distinct rows
InitOthers ==
    /\ df1 \in Tables(Rows({Str(<<97>>)}, IdCells), 0, MaxRows)
    /\ df2 \in Tables(Rows({Str(<<97>>)}, IdCells), 0, MaxRows)
    /\ others = Empty
    /\ df = Empty
    /\ dfn = Empty
    /\ section = "load"
    /\ selected_column = "name"
    /\ selected_option = "Starts with"
    /\ user_input = <<>>
    /\ selected_column_duplicated = <<>>
    /\ df_selected = Empty
    /\ duplicated_df = Empty
    /\ other_duplicated_df = Empty
    /\ group_df = Empty
    /\ other_group_df = Empty
    /\ raised = FALSE
    /\ similarity = NoOracle
    /\ deduplicated = NoOracle

CallOthers ==
    /\ section = "load"
    /\ others' = get_others(df1, df2)
    /\ section' = "others"
    /\ UNCHANGED <<df, dfn, selected_column, selected_option, user_input,
                   selected_column_duplicated, df_selected, duplicated_df,
                   other_duplicated_df, group_df, other_group_df, raised, similarity,
                   deduplicated, df1, df2>>

SpecOthers == InitOthers /\ [][CallOthers]_vars

----------------------------------------------------------------------------
(* Properties *)

rows_of(t) == {t[i] : i \in 1..Len(t)}

count(t, r) == Cardinality({i \in 1..Len(t) : t[i] = r})

key_of(r, cols) == [k \in 1..Len(cols) |-> r[cols[k]]]

set_of(r) == r["set"].v[1]

row_num_of(r) == r["row_num"].v[1]

in_duplicates == section \in {"duplicates", "duplicates_others"} /\ selected_column_duplicated # <<>>

in_group == section \in {"group", "group_others"}

C8_GroupSetIsDenseRank ==
    in_group =>
        LET lab(r) == deduplicated[astype_str(r[selected_column])]
            G == group_df
            Gp == project(G, columns(dfn))
            members(r) == Cardinality({j \in 1..Len(dfn) : lab(dfn[j]) = lab(r)})
            k == Cardinality({lab(G[i]) : i \in 1..Len(G)})
        IN /\ \A i \in 1..Len(dfn) : count(Gp, dfn[i]) = IF members(dfn[i]) >= 2 THEN 1 ELSE 0
           /\ rows_of(Gp) \subseteq rows_of(dfn)
           /\ \A p, q \in 1..Len(G) : p < q =>
                /\ ~str_less(lab(G[q]), lab(G[p]))
                /\ lab(G[p]) = lab(G[q]) => row_num_of(G[p]) < row_num_of(G[q])
                /\ set_of(G[p]) <= set_of(G[q])
           /\ {set_of(G[i]) : i \in 1..Len(G)} = 1..k
           /\ \A p, q \in 1..Len(G) : (set_of(G[p]) = set_of(G[q])) <=> (lab(G[p]) = lab(G[q]))
           /\ \A p \in 1..Len(G) : \E q \in 1..Len(G) : q # p /\ set_of(G[q]) = set_of(G[p])

\* C8 witness: two clusters, one of them joining different values, and a row left out
C8_Witness ==
    /\ in_group
    /\ Len(group_df) < Len(dfn)
    /\ \E r, q \in rows_of(group_df) :
          set_of(r) = set_of(q) /\ r[selected_column] # q[selected_column]

\* s holds pat as a literal substring
is_substring(s, pat) ==
    \E i \in 0..(Len(s) - Len(pat)) : \A j \in 1..Len(pat) : s[i + j] = pat[j]

\* s begins with pat
is_prefix(s, pat) == Len(pat) <= Len(s) /\ SubSeq(s, 1, Len(pat)) = pat

in_search(options) == section = "search" /\ user_input # <<>> /\ selected_option \in options

\* C4: get_others(full, subset) returns the rows of full whose value tuple
\* does not occur in subset: a row of full is in the result exactly when no
\* row of subset equals it.
C4_OthersIsValueDifference ==
    section = "others" =>
        \A i \in 1..Len(df1) : (df1[i] \in rows_of(others)) <=> (df1[i] \notin rows_of(df2))

\* C5: in mode 'Contains' a row is in the result exactly when the lowercased
\* string of its value holds lower(q) as a literal substring, whatever
\* characters q has; in mode 'Starts with' exactly when it begins with lower(q).
C5_ContainsIsLiteralSubstring ==
    in_search({"Starts with", "Contains"}) =>
        \A i \in 1..Len(dfn) :
            LET value == lower(astype_str(dfn[i][selected_column]))
                q == lower(user_input)
            IN (dfn[i] \in rows_of(df_selected)) <=>
                  IF selected_option = "Contains" THEN is_substring(value, q)
                                                  ELSE is_prefix(value, q)

\* C6: in modes 'Starts with' and 'Contains' the result is ascending by the
\* selected column's value, and rows with equal values are in ascending
\* row_num order.
C6_SortedWithRowNumTieBreak ==
    in_search({"Starts with", "Contains"}) =>
        \A p, q \in 1..Len(df_selected) : p < q =>
            LET vp == df_selected[p][selected_column]
                vq == df_selected[q][selected_column]
            IN /\ ~cell_less(vq, vp)
               /\ vp = vq => row_num_of(df_selected[p]) < row_num_of(df_selected[q])

\* C7: in mode 'Most similar', on a text, numeric or partly empty column, no
\* error is raised and the result holds exactly the rows whose value, as a
\* string, scores at least 0.4 against q, each of them once.
C7_MostSimilarExactRows ==
    in_search({"Most similar"}) =>
        /\ ~raised
        /\ rows_of(df_selected) \subseteq rows_of(dfn)
        /\ \A i \in 1..Len(dfn) :
              count(df_selected, dfn[i]) =
                 IF similarity[astype_str(dfn[i][selected_column])] >= 4 THEN 1 ELSE 0

C10_LoadedTableUnchanged ==
    /\ [](/\ Len(dfn) = Len(df)
          /\ \A i \in 1..Len(dfn) :
                /\ DOMAIN dfn[i] = Columns \cup {"row_num"}
                /\ dfn[i]["row_num"] = Num(i)
                /\ \A c \in Columns : dfn[i][c] = df[i][c])
    /\ [][df' = df /\ dfn' = dfn]_vars

\* C10 witness: a group view with rows, computed after a search that matched rows
C10_Witness ==
    /\ in_group
    /\ group_df # Empty
    /\ other_group_df # Empty

====
